---- MODULE Spec2Model ----
(***************************************************************************)
(* Model of src/data_viz/bounding-box.js: the bounding-box overlay that is *)
(* drawn on top of a video element.                                        *)
(*                                                                         *)
(* Program state: the three module-level variables boundingBoxData, svg    *)
(* and currentFrame, the part of the DOM the module reads and writes (the  *)
(* overlay <svg> elements of every video container with their box and      *)
(* label primitives), the ResizeObserver registrations, and the            *)
(* loadBoundingBoxData calls that are suspended at an await.               *)
(*                                                                         *)
(* The DOM structure is static: a container either has a .content-video    *)
(* element or it has none; only the geometry of a video changes.           *)
(***************************************************************************)
EXTENDS Integers, Sequences, FiniteSets, TLC

----------------------------------------------------------------------------
(* Bounds of the model *)

MaxFrame      == 1          \* Redraw is called with frames 0..MaxFrame
MaxPending    == 2          \* loadBoundingBoxData calls suspended at the same time

\* container 1 holds a .content-video element, container 2 holds none
Containers == {1, 2}
Frames     == 0..MaxFrame
Null       == 0             \* the value null of the variable svg

\* line 14: videoContainer.querySelector('.content-video') finds an element
HasVideo(c) == c = 1
VideoContainers == {c \in Containers : HasVideo(c)}

----------------------------------------------------------------------------
(* Static configuration and the documents a data file can hold *)

\* '../utils/set-class-colors.js': class -> colour; a class that is not a key
\* yields undefined
ClassColors(class) ==
    CASE class = "car"   -> "red"
      [] class = "truck" -> "blue"
      [] OTHER           -> "undefined"

LegendClasses == <<"car", "truck">>        \* Object.keys(classColors)

Rec(f, i, c, conf, b) == [frame |-> f, id |-> i, class |-> c, confidence |-> conf, bbox |-> b]

\* The array response.json() yields for each data file.  confidence is in
\* percent.  File 1 has ids unique within a frame and a box of negative
\* extent; file 2 repeats an id within frame 1 and has nothing for frame 0.
ParsedOf(src) ==
    IF src = 1
    THEN << Rec(0, 1, "car",   90, <<128, 64, 256, 128>>),
            Rec(0, 2, "truck", 50, <<0, 0, 512, 256>>),
            Rec(1, 2, "truck", 60, <<16, 16, 64, 64>>),
            Rec(1, 3, "car",    0, <<96, 96, 32, 32>>) >>
    ELSE << Rec(1, 1, "car",   90, <<128, 64, 256, 128>>),
            Rec(1, 1, "bus",   80, <<256, 128, 384, 192>>) >>

Sources == {1, 2}

\* Geometry of a video element: intrinsic size (videoWidth, videoHeight) and
\* rendered rectangle (getBoundingClientRect).  The intrinsic size is a power
\* of two and the rectangle a multiple of it, so every quotient of lines
\* 123-162 is exact in IEEE double arithmetic and equals the integer the model
\* computes.
Geo(vw, vh, w, h) == [videoWidth |-> vw, videoHeight |-> vh, width |-> w, height |-> h]

GeometryStates ==
    << Geo(0, 0, 512, 512),       \* metadata not loaded yet
       Geo(512, 256, 512, 512),   \* letterboxed: bars above and below
       Geo(512, 256, 1024, 512) >> \* scaled by 2, no bars

GeoIds == 1..Len(GeometryStates)

----------------------------------------------------------------------------
VARIABLES
    boundingBoxData,   \* line 4
    svg,               \* line 5: Null or the overlay the module draws on
    currentFrame,      \* line 6
    overlays,          \* container -> its .bounding-box-overlay children, in DOM order
    surfaces,          \* overlay -> [style, legend, boxes, labels]
    geom,              \* video container -> index into GeometryStates
    observed,          \* video elements with a ResizeObserver registered (line 77)
    roPending,         \* video elements with an observer notification to deliver
    pending,           \* suspended loadBoundingBoxData calls, oldest first
    lastDone,          \* history: the loadBoundingBoxData call that completed last
    requested,         \* history: {frame of the latest Redraw call}, {} after a successful load
    drawn,             \* history: {frame of the latest Redraw call that passed line 104}
    lastInit,          \* history: how the latest Initialize call ended
    fitIn,             \* <<videoWidth, videoHeight, width, height>> given to the transform
    fitOut,            \* <<its result>> (lines 123-134), <<>> before it ran
    history            \* which of the histories this behaviour records

vars == <<boundingBoxData, svg, currentFrame, overlays, surfaces, geom, observed,
          roPending, pending, lastDone, requested, drawn, lastInit, fitIn, fitOut, history>>

----------------------------------------------------------------------------
(* The history variables lastInit, lastDone (with the overtaken marks of    *)
(* pending) and requested, drawn record what the program did; no statement *)
(* of the program reads them.  A behaviour records one of the three         *)
(* histories, fixed in its first state, and leaves the variables of the     *)
(* other two at their initial value: every behaviour of the program is     *)
(* there once with each history.                                           *)

Histories == {"init", "load", "redraw"}

\* the next value of a variable of history h: new where the behaviour records
\* h, its initial value init elsewhere
Noted(h, new, init) == IF history = h THEN new ELSE init

----------------------------------------------------------------------------
(* Helpers *)

Min(a, b) == IF a <= b THEN a ELSE b

\* a / b where b divides a (see GeometryStates)
ExactDiv(a, b) == a \div b

RECURSIVE Flatten(_)
Flatten(ss) == IF ss = <<>> THEN <<>> ELSE Head(ss) \o Flatten(Tail(ss))

\* position of x in the sequence s, 0 when absent
IndexOf(s, x) == IF \E i \in 1..Len(s) : s[i] = x
                 THEN CHOOSE i \in 1..Len(s) : s[i] = x /\ \A j \in 1..(i-1) : s[j] # x
                 ELSE 0

\* the n-th smallest positive integer that is not in used: the identity of a
\* node created during a call differs from that of every node that existed
\* when the call started
RECURSIVE FreshName(_, _, _)
FreshName(used, n, from) ==
    IF from \in used THEN FreshName(used, n, from + 1)
    ELSE IF n = 1 THEN from ELSE FreshName(used, n - 1, from + 1)

----------------------------------------------------------------------------
(* Lines 122-134: the native-to-display transform *)

Transform(g) ==
    LET scale        == Min(ExactDiv(g.width, g.videoWidth), ExactDiv(g.height, g.videoHeight))
        actualWidth  == g.videoWidth * scale
        actualHeight == g.videoHeight * scale
    IN [scale |-> scale, actualWidth |-> actualWidth, actualHeight |-> actualHeight,
        xOffset |-> ExactDiv(g.width - actualWidth, 2),
        yOffset |-> ExactDiv(g.height - actualHeight, 2)]

\* lines 148-168: the attributes of the rect of record d; isFinite holds of
\* every value the model computes
BoxAttrs(d, g) ==
    LET t == Transform(g)
        width  == ExactDiv((d.bbox[3] - d.bbox[1]) * t.actualWidth, g.videoWidth)
        height == ExactDiv((d.bbox[4] - d.bbox[2]) * t.actualHeight, g.videoHeight)
    IN [x |-> t.xOffset + ExactDiv(d.bbox[1] * t.actualWidth, g.videoWidth),
        y |-> t.yOffset + ExactDiv(d.bbox[2] * t.actualHeight, g.videoHeight),
        width  |-> IF width > 0 THEN width ELSE 0,
        height |-> IF height > 0 THEN height ELSE 0,
        stroke |-> ClassColors(d.class),
        opacity |-> Min(100, d.confidence + 30)]

\* lines 180-192: the attributes of the text of record d; the text is
\* `${class} ${id} (${round(confidence * 100)}%)`
LabelAttrs(d, g) ==
    LET t == Transform(g)
    IN [x |-> t.xOffset + ExactDiv(d.bbox[1] * t.actualWidth, g.videoWidth),
        y |-> t.yOffset + ExactDiv(d.bbox[2] * t.actualHeight, g.videoHeight) - 5,
        text |-> <<d.class, d.id, d.confidence>>,
        fill |-> ClassColors(d.class)]

\* the attributes the join sets on the rect (lines 148-168) or on the text
\* (lines 180-192) bound to d
AttrsOf(tag, d, g) == IF tag = "rect" THEN BoxAttrs(d, g) ELSE LabelAttrs(d, g)

----------------------------------------------------------------------------
(* Lines 136-147 and 171-179: the keyed data join of d3                    *)
(* (selection.data(data, key), exit().remove(), enter().append().merge()). *)
(* A primitive of the document is [d, a]: its bound datum and its          *)
(* attributes.  During a call the identity of a node is its position in    *)
(* the selection at the start of the call: the join yields [from, d, a],   *)
(* from = i for the i-th node of the selection updated in place and        *)
(* from = 0 for a node the call created.                                   *)

KeyOf(d) == d.id                                   \* the key function d => d.id

\* the node of the group a datum with this key is bound to: the first node in
\* document order that carries the key (later nodes with the key exit)
NodeByKey(group, key) ==
    IF \E i \in 1..Len(group) : KeyOf(group[i].d) = key
    THEN CHOOSE i \in 1..Len(group) :
            /\ KeyOf(group[i].d) = key
            /\ \A j \in 1..(i-1) : KeyOf(group[j].d) # key
    ELSE 0

\* UpdateOf with the key function forgotten: d3 then joins by index
UpdateOf_byIndex(group, data, k) == IF k <= Len(group) THEN k ELSE 0

\* the index of the node that datum k updates, 0 when datum k enters: a node
\* is taken by the first datum with its key
UpdateOf(group, data, k) ==
    IF \A j \in 1..(k-1) : KeyOf(data[j]) # KeyOf(data[k])
    THEN NodeByKey(group, KeyOf(data[k]))
    ELSE 0

\* the datum that updates node i, 0 when node i exits
DatumOf(group, data, i) ==
    IF \E k \in 1..Len(data) : UpdateOf(group, data, k) = i
    THEN CHOOSE k \in 1..Len(data) : UpdateOf(group, data, k) = i
    ELSE 0

\* the datum of the update node an entering datum k is inserted before
\* (EnterNode._next): the next datum after k that updates a node, 0 for none
NextUpdate(group, data, k) ==
    IF \E n \in (k+1)..Len(data) : UpdateOf(group, data, n) # 0
    THEN CHOOSE n \in (k+1)..Len(data) :
            /\ UpdateOf(group, data, n) # 0
            /\ \A m \in (k+1)..(n-1) : UpdateOf(group, data, m) = 0
    ELSE 0

\* the entering data that are inserted before the node updated by datum n
\* (n = 0: appended at the end of the parent), in data order
EntersBefore(group, data, n) ==
    SelectSeq([k \in 1..Len(data) |-> k],
              LAMBDA k : UpdateOf(group, data, k) = 0 /\ NextUpdate(group, data, k) = n)

\* Join replaced by an append of one node per datum, without a data join
Join_appendAll(group, data, tag, g) ==
    [i \in 1..Len(group) |-> [from |-> i, d |-> group[i].d, a |-> group[i].a]]
    \o [k \in 1..Len(data) |-> [from |-> 0, d |-> data[k], a |-> AttrsOf(tag, data[k], g)]]

\* the join of the selection group of tag elements with data, under geometry g
Join(group, data, tag, g) ==
    LET Entered(k)    == [from |-> 0, d |-> data[k], a |-> AttrsOf(tag, data[k], g)]
        Updated(i, k) == [from |-> i, d |-> data[k], a |-> AttrsOf(tag, data[k], g)]
        EnterSeq(n) == LET ks == EntersBefore(group, data, n)
                       IN [j \in 1..Len(ks) |-> Entered(ks[j])]
        Kept(i) == LET k == DatumOf(group, data, i)
                   IN IF k = 0 THEN <<>>                         \* exit().remove()
                      ELSE EnterSeq(k) \o <<Updated(i, k)>>      \* merge: updated in place
    IN Flatten([i \in 1..Len(group) |-> Kept(i)]) \o EnterSeq(0)

\* the primitives the document holds once the call is over
Settle(nodes) == [i \in 1..Len(nodes) |-> [d |-> nodes[i].d, a |-> nodes[i].a]]

Settled(r) ==
    [currentFrame |-> r.currentFrame,
     surfaces |-> [s \in DOMAIN r.surfaces |->
                     [r.surfaces[s] EXCEPT !.boxes = Settle(@), !.labels = Settle(@)]]]

----------------------------------------------------------------------------
(* Lines 103-193: updateBoundingBoxes *)

\* svg.node().parentNode: the container the overlay is a child of, Null for
\* an overlay that was removed from the document
ParentOf(s) ==
    IF \E c \in Containers : IndexOf(overlays[c], s) # 0
    THEN CHOOSE c \in Containers : IndexOf(overlays[c], s) # 0
    ELSE Null

\* ReturnsAtOnce without the check for empty data
ReturnsAtOnce_noDataCheck == svg = Null

\* line 104: the call returns before it touches anything
ReturnsAtOnce == svg = Null \/ Len(boundingBoxData) = 0

\* line 120: the safety check for valid dimensions fails
InvalidDimensions(g) ==
    g.videoWidth = 0 \/ g.videoHeight = 0 \/ g.width = 0 \/ g.height = 0

\* updateBoundingBoxes with the assignment of line 106 moved behind the checks
\* of lines 111 and 120
updateBoundingBoxes_frameAfterCheck(st, frameNumber) ==
    IF ReturnsAtOnce THEN st
    ELSE LET frameData == SelectSeq(boundingBoxData, LAMBDA d : d.frame = frameNumber)
             parent    == ParentOf(svg)
             set       == [st EXCEPT !.currentFrame = frameNumber]
         IN IF parent = Null THEN st
            ELSE IF ~HasVideo(parent) THEN st
            ELSE LET g == GeometryStates[geom[parent]]
                 IN IF g.videoWidth = 0 \/ g.videoHeight = 0 \/ g.width = 0 \/ g.height = 0
                    THEN st
                    ELSE [set EXCEPT !.surfaces[svg].boxes  = Join(@, frameData, "rect", g),
                                     !.surfaces[svg].labels = Join(@, frameData, "text", g)]

\* st = [currentFrame, surfaces] before the call; the result is st after it,
\* the primitives of the join still carrying their from field
updateBoundingBoxes(st, frameNumber) ==
    IF ReturnsAtOnce THEN st
    ELSE LET frameData == SelectSeq(boundingBoxData, LAMBDA d : d.frame = frameNumber)
             parent    == ParentOf(svg)
             set       == [st EXCEPT !.currentFrame = frameNumber]       \* line 106
         IN IF parent = Null THEN set              \* line 110 throws a TypeError
            ELSE IF ~HasVideo(parent) THEN set     \* line 111
            ELSE LET g == GeometryStates[geom[parent]]
                 IN IF InvalidDimensions(g) THEN set                     \* line 120
                    ELSE [set EXCEPT !.surfaces[svg].boxes  = Join(@, frameData, "rect", g),
                                     !.surfaces[svg].labels = Join(@, frameData, "text", g)]

Now == [currentFrame |-> currentFrame, surfaces |-> surfaces]

----------------------------------------------------------------------------
(* Lines 8-82: initializeBoundingBoxes *)

\* RemoveExisting that removes nothing
RemoveExisting_keeps(ovs) == ovs

\* line 11: d3.select(videoContainer).select('.bounding-box-overlay').remove()
\* removes the first overlay of the container
RemoveExisting(ovs) == IF ovs = <<>> THEN <<>> ELSE Tail(ovs)

\* lines 19-59: the new overlay covers the rendered rectangle of the video and
\* holds an empty box layer and the legend
NewSurface(c) ==
    [style  |-> <<GeometryStates[geom[c]].width, GeometryStates[geom[c]].height>>,
     legend |-> LegendClasses,
     boxes  |-> <<>>,
     labels |-> <<>>]

\* the overlays that are in the document or referenced by svg
Live(ovs, ref) ==
    UNION {{ovs[c][i] : i \in 1..Len(ovs[c])} : c \in Containers} \cup ({ref} \ {Null})

Initialize(c) ==
    LET removed == [overlays EXCEPT ![c] = RemoveExisting(@)]
        new     == FreshName(Live(removed, Null), 1, 1)
        added   == [removed EXCEPT ![c] = Append(@, new)]
    IN IF HasVideo(c)
       THEN /\ overlays' = added
            /\ svg' = new
            /\ surfaces' = [s \in Live(added, new) |->
                              IF s = new THEN NewSurface(c) ELSE surfaces[s]]
            /\ observed' = observed \cup {c}                   \* line 77
            /\ roPending' = roPending \cup {c}                 \* observe() notifies once
            /\ lastInit' = Noted("init", IF removed = overlays THEN "created" ELSE "replaced", "none")
            /\ UNCHANGED <<boundingBoxData, currentFrame, geom, pending, lastDone,
                           requested, drawn, fitIn, fitOut, history>>
       ELSE \* line 15 throws on null, line 79 catches: svg keeps its value
            /\ overlays' = removed
            /\ surfaces' = [s \in Live(removed, svg) |-> surfaces[s]]
            /\ lastInit' = Noted("init", "failed", "none")
            /\ UNCHANGED <<boundingBoxData, svg, currentFrame, geom, observed, roPending,
                           pending, lastDone, requested, drawn, fitIn, fitOut, history>>

----------------------------------------------------------------------------
(* Lines 85-101: loadBoundingBoxData.  The call suspends at await fetch   *)
(* (line 87) and again at await response.json() (line 88); between the two *)
(* it touches no variable, so the model keeps one suspension, which ends   *)
(* with the parsed document or with a rejection of either promise.         *)

\* LoadStart that empties the records before it fetches
LoadStart_clearsFirst(src) ==
    /\ Len(pending) < MaxPending
    /\ pending' = Append(pending, [src |-> src, overtaken |-> FALSE])
    /\ boundingBoxData' = <<>>
    /\ UNCHANGED <<svg, currentFrame, overlays, surfaces, geom, observed,
                   roPending, lastDone, requested, drawn, lastInit, fitIn, fitOut, history>>

\* lines 85-87: the call suspends
LoadStart(src) ==
    /\ Len(pending) < MaxPending
    /\ pending' = Append(pending, [src |-> src, overtaken |-> FALSE])
    /\ UNCHANGED <<boundingBoxData, svg, currentFrame, overlays, surfaces, geom, observed,
                   roPending, lastDone, requested, drawn, lastInit, fitIn, fitOut, history>>

\* the value of lastDone before any call completed
NoLoad == [src |-> 0, ok |-> FALSE, overtaken |-> FALSE]

\* call i leaves pending; the calls started before it have been overtaken
Complete(i) ==
    [j \in 1..(Len(pending) - 1) |->
        IF j < i THEN [pending[j] EXCEPT !.overtaken = Noted("load", TRUE, FALSE)]
        ELSE pending[j + 1]]

\* Stored with request sequencing: the response of an overtaken call is dropped
Stored_ignoreStale(i) ==
    IF pending[i].overtaken THEN boundingBoxData ELSE ParsedOf(pending[i].src)

\* what a successfully parsed document is stored as (line 88)
Stored(i) == ParsedOf(pending[i].src)

\* lines 88-90: the document is fetched and parsed
LoadSucceed(i) ==
    /\ i \in 1..Len(pending)
    /\ boundingBoxData' = Stored(i)
    /\ currentFrame' = 0
    /\ pending' = Complete(i)
    /\ lastDone' = Noted("load", [src |-> pending[i].src, ok |-> TRUE,
                                   overtaken |-> pending[i].overtaken], NoLoad)
    /\ requested' = {}
    /\ drawn' = {}
    /\ UNCHANGED <<svg, overlays, surfaces, geom, observed, roPending, lastInit, fitIn, fitOut, history>>

\* Cleared that leaves the stale records in place
Cleared_keepsStale(old) == old

\* what boundingBoxData is after a failed load (line 93)
Cleared(old) == <<>>

\* lines 91-94: fetch or response.json() rejected
LoadFail(i) ==
    /\ i \in 1..Len(pending)
    /\ boundingBoxData' = Cleared(boundingBoxData)
    /\ pending' = Complete(i)
    /\ lastDone' = Noted("load", [src |-> pending[i].src, ok |-> FALSE,
                                   overtaken |-> pending[i].overtaken], NoLoad)
    /\ UNCHANGED <<svg, currentFrame, overlays, surfaces, geom, observed, roPending,
                   requested, drawn, lastInit, fitIn, fitOut, history>>

----------------------------------------------------------------------------
(* The callers of updateBoundingBoxes *)

\* the exported updateBoundingBoxes called with a frame number
Redraw(f) ==
    LET r == Settled(updateBoundingBoxes(Now, f))
    IN /\ currentFrame' = r.currentFrame
       /\ surfaces' = r.surfaces
       /\ requested' = Noted("redraw", {f}, {})
       /\ drawn' = Noted("redraw", IF ReturnsAtOnce THEN drawn ELSE {f}, {})
       /\ UNCHANGED <<boundingBoxData, svg, overlays, geom, observed, roPending, pending,
                      lastDone, lastInit, fitIn, fitOut, history>>

\* lines 196-200, the window resize listener
HandleResize ==
    LET r == IF svg # Null THEN Settled(updateBoundingBoxes(Now, currentFrame)) ELSE Now
    IN /\ currentFrame' = r.currentFrame
       /\ surfaces' = r.surfaces
       /\ UNCHANGED <<boundingBoxData, svg, overlays, geom, observed, roPending, pending,
                      lastDone, requested, drawn, lastInit, fitIn, fitOut, history>>

\* the rendered size or the intrinsic size of the video of container c changes
GeometryChange(c, g) ==
    /\ HasVideo(c)
    /\ g \in GeoIds
    /\ g # geom[c]
    /\ geom' = [geom EXCEPT ![c] = g]
    /\ roPending' = IF /\ c \in observed
                       /\ <<GeometryStates[g].width, GeometryStates[g].height>> #
                          <<GeometryStates[geom[c]].width, GeometryStates[geom[c]].height>>
                    THEN roPending \cup {c} ELSE roPending
    /\ UNCHANGED <<boundingBoxData, svg, currentFrame, overlays, surfaces, observed,
                   pending, lastDone, requested, drawn, lastInit, fitIn, fitOut, history>>

\* lines 62-75: the ResizeObserver callback registered by Initialize(c); svg is
\* the module variable, videoElement the video of container c
ObserverFire(c) ==
    /\ c \in roPending
    /\ roPending' = roPending \ {c}
    /\ LET g == GeometryStates[geom[c]]
           styled == [Now EXCEPT !.surfaces[svg].style = <<g.width, g.height>>]
           r == Settled(updateBoundingBoxes(styled, currentFrame))
       IN /\ currentFrame' = r.currentFrame
          /\ surfaces' = r.surfaces
    /\ UNCHANGED <<boundingBoxData, svg, overlays, geom, observed, pending,
                   lastDone, requested, drawn, lastInit, fitIn, fitOut, history>>

----------------------------------------------------------------------------
Init ==
    /\ boundingBoxData = <<>>
    /\ svg = Null
    /\ currentFrame = 0
    /\ overlays = [c \in Containers |-> <<>>]
    /\ surfaces = <<>>
    /\ geom = [c \in VideoContainers |-> 1]
    /\ observed = {}
    /\ roPending = {}
    /\ pending = <<>>
    /\ lastDone = NoLoad
    /\ requested = {}
    /\ drawn = {}
    /\ lastInit = "none"
    /\ fitIn = <<>>
    /\ fitOut = <<>>
    /\ history \in Histories

Next ==
    \/ \E c \in Containers : Initialize(c)
    \/ \E src \in Sources : LoadStart(src)
    \/ \E i \in 1..MaxPending : LoadSucceed(i)
    \/ \E i \in 1..MaxPending : LoadFail(i)
    \/ \E f \in Frames : Redraw(f)
    \/ HandleResize
    \/ \E c \in Containers, g \in GeoIds : GeometryChange(c, g)
    \/ \E c \in Containers : ObserverFire(c)

Spec == Init /\ [][Next]_vars

----------------------------------------------------------------------------
(* Lines 123-134 in the arithmetic of the program: a JavaScript number is  *)
(* an IEEE 754 binary64 value and every operator rounds its exact result   *)
(* to the nearest such value, ties to even.  A natural number is kept as   *)
(* its binary digits, most significant first, <<>> being 0; a number is    *)
(* [sign, m, e] with value sign * m * 2^e, m holding exactly Precision     *)
(* digits with a leading 1 (sign = 0, m = <<>> for zero).  The exponent    *)
(* range of binary64 is not reached by the magnitudes used here.           *)

Precision == 53

\* fraction digits the long division produces before it rounds
FracDigits == Precision + 11

Zeros(n) == [i \in 1..n |-> 0]

RECURSIVE BitsOf(_)
BitsOf(n) == IF n = 0 THEN <<>> ELSE BitsOf(n \div 2) \o <<n % 2>>

RECURSIVE Strip(_)
Strip(b) == IF b # <<>> /\ Head(b) = 0 THEN Strip(Tail(b)) ELSE b

\* -1, 0, 1 as a < b, a = b, a > b, for digit sequences of equal length
RECURSIVE CmpDigits(_, _)
CmpDigits(a, b) ==
    IF a = <<>> THEN 0
    ELSE IF Head(a) < Head(b) THEN -1
    ELSE IF Head(a) > Head(b) THEN 1
    ELSE CmpDigits(Tail(a), Tail(b))

\* comparison of naturals without leading zeros
CmpBits(a, b) ==
    IF Len(a) < Len(b) THEN -1
    ELSE IF Len(a) > Len(b) THEN 1
    ELSE CmpDigits(a, b)

\* b + 1
RECURSIVE Inc(_)
Inc(b) ==
    IF b = <<>> THEN <<1>>
    ELSE IF b[Len(b)] = 0 THEN SubSeq(b, 1, Len(b) - 1) \o <<1>>
    ELSE Inc(SubSeq(b, 1, Len(b) - 1)) \o <<0>>

\* a - b for Len(a) = Len(b) and a >= b: digit i downwards with a borrow
RECURSIVE SubDigits(_, _, _, _)
SubDigits(a, b, i, borrow) ==
    IF i = 0 THEN <<>>
    ELSE IF a[i] - b[i] - borrow < 0
    THEN SubDigits(a, b, i - 1, 1) \o <<a[i] - b[i] - borrow + 2>>
    ELSE SubDigits(a, b, i - 1, 0) \o <<a[i] - b[i] - borrow>>

\* a - b for naturals a >= b
SubBits(a, b) == Strip(SubDigits(a, Zeros(Len(a) - Len(b)) \o b, Len(a), 0))

\* b * n for a small natural n: digit i downwards with a carry
RECURSIVE MulDigits(_, _, _, _)
MulDigits(b, n, i, carry) ==
    IF i = 0 THEN BitsOf(carry)
    ELSE IF (b[i] * n + carry) % 2 = 1
    THEN MulDigits(b, n, i - 1, (b[i] * n + carry) \div 2) \o <<1>>
    ELSE MulDigits(b, n, i - 1, (b[i] * n + carry) \div 2) \o <<0>>

MulBits(b, n) == Strip(MulDigits(b, n, Len(b), 0))

\* the first n fraction digits of r / b for r < b
RECURSIVE FracOf(_, _, _)
FracOf(r, b, n) ==
    IF n = 0 THEN <<>>
    ELSE IF 2 * r >= b THEN <<1>> \o FracOf(2 * r - b, b, n - 1)
    ELSE <<0>> \o FracOf(2 * r, b, n - 1)

\* the remainder the long division is left with after n fraction digits
RECURSIVE RemOf(_, _, _)
RemOf(r, b, n) ==
    IF n = 0 THEN r
    ELSE IF 2 * r >= b THEN RemOf(2 * r - b, b, n - 1) ELSE RemOf(2 * r, b, n - 1)

DZero == [sign |-> 0, m |-> <<>>, e |-> 0]

\* sign * bits * 2^e (plus a non-zero tail below the last digit when sticky),
\* rounded to nearest, ties to even
RoundD(sign, bits, e, sticky) ==
    LET b == Strip(bits)
        n == Len(b)
    IN IF n = 0 THEN DZero
       ELSE IF n <= Precision
       THEN [sign |-> sign, m |-> b \o Zeros(Precision - n), e |-> e - (Precision - n)]
       ELSE LET kept  == SubSeq(b, 1, Precision)
                half  == b[Precision + 1] = 1
                tail  == sticky \/ \E i \in (Precision + 2)..n : b[i] = 1
                up    == half /\ (tail \/ kept[Precision] = 1)
                r     == IF up THEN Inc(kept) ELSE kept
            IN IF Len(r) > Precision
               THEN [sign |-> sign, m |-> SubSeq(r, 1, Precision), e |-> e + (n - Precision) + 1]
               ELSE [sign |-> sign, m |-> r, e |-> e + (n - Precision)]

\* the number an integer-valued dimension is
FromInt(n) == RoundD(IF n > 0 THEN 1 ELSE 0, BitsOf(n), 0, FALSE)

\* a / b for positive integers a and b
DivD(a, b) ==
    RoundD(1, BitsOf(a \div b) \o FracOf(a % b, b, FracDigits), 0 - FracDigits,
           RemOf(a % b, b, FracDigits) # 0)

\* n * x for a positive integer n
MulD(n, x) == RoundD(x.sign, MulBits(x.m, n), x.e, FALSE)

\* -1, 0, 1 as x < y, x = y, x > y, for x, y >= 0
CmpD(x, y) ==
    IF x.sign = 0 \/ y.sign = 0 THEN x.sign - y.sign
    ELSE IF x.e < y.e THEN -1
    ELSE IF x.e > y.e THEN 1
    ELSE CmpDigits(x.m, y.m)

\* Math.min
MinD(x, y) == IF CmpD(x, y) <= 0 THEN x ELSE y

\* x - y for x, y > 0
SubD(x, y) ==
    LET e  == IF x.e < y.e THEN x.e ELSE y.e
        xs == Strip(x.m \o Zeros(x.e - e))
        ys == Strip(y.m \o Zeros(y.e - e))
        c  == CmpBits(xs, ys)
    IN IF c = 0 THEN DZero
       ELSE IF c > 0 THEN RoundD(1, SubBits(xs, ys), e, FALSE)
       ELSE RoundD(-1, SubBits(ys, xs), e, FALSE)

\* x / 2
HalfD(x) == IF x.sign = 0 THEN x ELSE [x EXCEPT !.e = @ - 1]

\* lines 123-134 for in = <<videoWidth, videoHeight, width, height>>
FitTransform(in) ==
    LET scale        == MinD(DivD(in[3], in[1]), DivD(in[4], in[2]))
        actualWidth  == MulD(in[1], scale)
        actualHeight == MulD(in[2], scale)
    IN [scale |-> scale, actualWidth |-> actualWidth, actualHeight |-> actualHeight,
        xOffset |-> HalfD(SubD(FromInt(in[3]), actualWidth)),
        yOffset |-> HalfD(SubD(FromInt(in[4]), actualHeight))]

\* the dimensions the transform is computed for
MaxFitWidth  == 3
MaxFitHeight == 21

FitInputs ==
    {<<nw, nh, dw, dh>> : nw \in 1..MaxFitWidth, nh \in 1..MaxFitHeight,
                          dw \in 1..MaxFitWidth, dh \in 1..MaxFitHeight}

\* line 120 passed: the transform of the dimensions fitIn is computed
ComputeFit ==
    /\ fitIn # <<>>
    /\ fitOut = <<>>
    /\ fitOut' = <<FitTransform(fitIn)>>
    /\ UNCHANGED <<boundingBoxData, svg, currentFrame, overlays, surfaces, geom, observed,
                   roPending, pending, lastDone, requested, drawn, lastInit, fitIn, history>>

InitFit ==
    /\ boundingBoxData = <<>>
    /\ svg = Null
    /\ currentFrame = 0
    /\ overlays = [c \in Containers |-> <<>>]
    /\ surfaces = <<>>
    /\ geom = [c \in VideoContainers |-> 1]
    /\ observed = {}
    /\ roPending = {}
    /\ pending = <<>>
    /\ lastDone = NoLoad
    /\ requested = {}
    /\ drawn = {}
    /\ lastInit = "none"
    /\ fitIn \in FitInputs
    /\ fitOut = <<>>
    /\ history = "init"

NextFit == ComputeFit

SpecFit == InitFit /\ [][NextFit]_vars

----------------------------------------------------------------------------
(* Vocabulary of the properties *)

\* the records of frame f, in the order of the loaded array
FrameData(f) == SelectSeq(boundingBoxData, LAMBDA d : d.frame = f)

FrameIds(f) == {FrameData(f)[i].id : i \in 1..Len(FrameData(f))}

\* the ids of the records of frame f are unique within the frame
UniqueIds(f) == Cardinality(FrameIds(f)) = Len(FrameData(f))

IdsOf(nodes) == {nodes[i].d.id : i \in 1..Len(nodes)}

\* the geometry of the video the overlay svg lies over
SvgGeo == GeometryStates[geom[ParentOf(svg)]]

\* a redraw passes every check of lines 104-120
PassesGuards ==
    /\ svg # Null
    /\ boundingBoxData # <<>>
    /\ ParentOf(svg) # Null
    /\ HasVideo(ParentOf(svg))
    /\ SvgGeo.videoWidth # 0 /\ SvgGeo.videoHeight # 0
    /\ SvgGeo.width # 0 /\ SvgGeo.height # 0

\* what a completed load leaves in boundingBoxData
OutcomeOf(l) == IF l.ok THEN ParsedOf(l.src) ELSE <<>>

----------------------------------------------------------------------------
(* C1: after an Initialize on a container without a .content-video element *)
(* no overlay surface exists and every Redraw is a no-op, until an         *)
(* Initialize succeeds.                                                    *)
C1_FailedInitLeavesNoSurface ==
    lastInit = "failed" =>
        /\ svg = Null
        /\ \A f \in Frames : Settled(updateBoundingBoxes(Now, f)) = Now

(* C2: every container holds at most one overlay surface.                  *)
C2_AtMostOneOverlay ==
    \A c \in Containers : Len(overlays[c]) <= 1

\* an Initialize replaced the overlay of the video container
C2_Witness ==
    lastInit = "replaced" /\ Len(overlays[1]) = 1

(* C3: the step in which a LoadData call completes leaves in               *)
(* boundingBoxData either exactly the array parsed from the source of that *)
(* call, together with currentFrame = 0, or the empty array.               *)
C3_ReplaceOrClear ==
    [][Len(pending') < Len(pending) =>
          \E i \in 1..Len(pending) :
              /\ pending' = Complete(i)
              /\ \/ boundingBoxData' = ParsedOf(pending[i].src) /\ currentFrame' = 0
                 \/ boundingBoxData' = <<>>]_vars

\* a reload failed after records had been loaded and drawn: the records are
\* gone, the primitives drawn from them still stand
C3_Witness ==
    /\ lastDone.src # 0 /\ ~lastDone.ok
    /\ boundingBoxData = <<>>
    /\ svg # Null /\ Len(surfaces[svg].boxes) > 0

(* C4: a Redraw(f) that passes its guards, for a frame whose ids are       *)
(* unique, leaves exactly one box and one label per id of frame f; the     *)
(* node of an id that was present before is the same node, updated in      *)
(* place, the node of a new id is created, every other node is removed.    *)
C4_KeyedRedraw ==
    \A f \in Frames :
        (PassesGuards /\ UniqueIds(f)) =>
            LET after == updateBoundingBoxes(Now, f).surfaces[svg]
                Keyed(pre, post, tag) ==
                    /\ IdsOf(post) = FrameIds(f)
                    /\ Len(post) = Cardinality(FrameIds(f))
                    /\ \A i \in 1..Len(post) :
                          /\ \E k \in 1..Len(FrameData(f)) : post[i].d = FrameData(f)[k]
                          /\ post[i].a = AttrsOf(tag, post[i].d, SvgGeo)
                          /\ IF post[i].d.id \in IdsOf(pre)
                             THEN /\ post[i].from \in 1..Len(pre)
                                  /\ pre[post[i].from].d.id = post[i].d.id
                             ELSE post[i].from = 0
            IN /\ Keyed(surfaces[svg].boxes, after.boxes, "rect")
               /\ Keyed(surfaces[svg].labels, after.labels, "text")

\* frame 0 of file 1 is drawn; Redraw(1) removes the node of id 1, reuses the
\* node of id 2 and creates the node of id 3
C4_Witness ==
    /\ PassesGuards
    /\ currentFrame = 0
    /\ boundingBoxData = ParsedOf(1)
    /\ IdsOf(surfaces[svg].boxes) = {1, 2}
    /\ LET after == updateBoundingBoxes(Now, 1).surfaces[svg].boxes
       IN /\ Len(after) = 2
          /\ \E i \in 1..2 : after[i].from = 0 /\ after[i].d.id = 3
          /\ \E i \in 1..2 : after[i].from # 0 /\ after[i].d.id = 2

(* C5: Redraw(f) called twice in succession with the records and the       *)
(* geometry unchanged leaves after the second call the primitives and the  *)
(* currentFrame the first call left.                                       *)
C5_RedrawIdempotent ==
    \A f \in Frames :
        LET once  == Settled(updateBoundingBoxes(Now, f))
            twice == Settled(updateBoundingBoxes(once, f))
        IN twice = once

\* a frame with two records is drawn and a further Redraw of it changes nothing
C5_Witness ==
    /\ PassesGuards
    /\ drawn = {currentFrame} /\ requested = drawn
    /\ Len(surfaces[svg].boxes) = 2 /\ Len(surfaces[svg].labels) = 2
    /\ Len(FrameData(currentFrame)) = 2
    /\ Settled(updateBoundingBoxes(Now, currentFrame)) = Now

(* C6: a Redraw(f) called while no overlay surface exists or while         *)
(* boundingBoxData is empty changes neither currentFrame nor               *)
(* boundingBoxData nor any primitive.                                      *)
C6_RedrawNoOp ==
    [][((svg = Null \/ boundingBoxData = <<>>) /\ requested' # {} /\ requested' # requested)
          => UNCHANGED <<currentFrame, boundingBoxData, surfaces, svg, overlays>>]_vars

\* records are loaded, no overlay was ever built, Redraw(1) was called
C6_Witness ==
    /\ svg = Null
    /\ boundingBoxData # <<>>
    /\ requested = {1}
    /\ currentFrame = 0

(* C7: boundingBoxData holds the outcome of the LoadData call that         *)
(* completed last, whatever the order in which the calls were started.     *)
C7_LastCompletedWins ==
    lastDone.src # 0 => boundingBoxData = OutcomeOf(lastDone)

\* both calls are over; the one that was started first completed last and its
\* document replaced that of the other
C7_Witness ==
    /\ pending = <<>>
    /\ lastDone.overtaken /\ lastDone.ok /\ lastDone.src = 1
    /\ boundingBoxData = ParsedOf(1)

(* C8, as stated: while a LoadData call is pending, boundingBoxData and    *)
(* currentFrame keep the values they had before the call.                  *)
C8_FrozenWhilePending ==
    [][(pending # <<>> /\ pending' # <<>>)
          => UNCHANGED <<boundingBoxData, currentFrame>>]_vars

(* C8, amended: a pending LoadData call itself changes neither variable.   *)
(* boundingBoxData changes only in the step in which some LoadData call    *)
(* completes, the start of a call changes neither boundingBoxData nor      *)
(* currentFrame, and a step that stores a non-empty array sets             *)
(* currentFrame to 0 in the same step.                                     *)
C8_ChangedOnlyAtCompletion ==
    [][/\ boundingBoxData' # boundingBoxData => Len(pending') < Len(pending)
       /\ Len(pending') > Len(pending) => UNCHANGED <<boundingBoxData, currentFrame>>
       /\ (boundingBoxData' # boundingBoxData /\ boundingBoxData' # <<>>) => currentFrame' = 0]_vars

\* a call is still pending after a later call completed with a document, and
\* a Redraw drew frame 1 of that document in the meantime
C8_Witness ==
    /\ pending # <<>> /\ pending[1].overtaken
    /\ lastDone.ok
    /\ currentFrame = 1
    /\ svg # Null /\ Len(surfaces[svg].boxes) > 0

(* C9, as stated: as long as no load succeeded since the latest Redraw     *)
(* call, currentFrame is the frame passed to that call.                    *)
C9_FrameOfLatestRedraw ==
    \A f \in requested : currentFrame = f

(* C9, amended: as long as no load succeeded since, currentFrame is the    *)
(* frame passed to the latest Redraw call that found an overlay surface    *)
(* and a non-empty boundingBoxData; a Redraw that returns at line 104      *)
(* leaves currentFrame alone.                                              *)
C9_FrameOfLatestDrawnRedraw ==
    \A f \in drawn : currentFrame = f

\* Redraw(1) was drawn, a later Redraw(0) returned at line 104
C9_Witness ==
    /\ drawn = {1} /\ requested = {0}
    /\ currentFrame = 1

(* C10: for positive dimensions the transform fits the picture into the   *)
(* displayed rectangle: actualWidth <= width and actualHeight <= height    *)
(* with equality in at least one dimension, so both offsets are >= 0 and   *)
(* at least one of them is 0.                                              *)
C10_AspectFit ==
    fitOut # <<>> =>
        LET t == fitOut[1]
            w == CmpD(t.actualWidth, FromInt(fitIn[3]))
            h == CmpD(t.actualHeight, FromInt(fitIn[4]))
        IN /\ w <= 0
           /\ h <= 0
           /\ w = 0 \/ h = 0
           /\ t.xOffset.sign >= 0
           /\ t.yOffset.sign >= 0
           /\ t.xOffset.sign = 0 \/ t.yOffset.sign = 0

====
